---- MODULE Spec2Model ----
(***************************************************************************)
(* Model of the store backend's cart, login-merge and checkout routes.     *)
(*                                                                         *)
(* The persistent store is a set of tables (carts, cart_items, products,   *)
(* orders, order_items, order_status_history).  Every request handler is a *)
(* sequence of awaited statements; each statement is one atomic step of    *)
(* the model, and the steps of concurrent requests interleave freely.      *)
(* Amounts of money are integers in cents (numeric(10,2)).                 *)
(***************************************************************************)
EXTENDS Integers, Sequences, FiniteSets, TLC

\* ---------------------------------------------------------------- bounds
MaxStock == 2
MaxQty == 2
MaxRequests == 2
MaxDbFailures == 1

Products == {1, 2}
Users == {1, 2}
Sessions == {11}
Clients == {1, 2}
OrderNumbers == {1001, 1002}
FloatErr == {-1, 0, 1}

NULL == 0
NoItem == [id |-> 0, cartId |-> 0, productId |-> 0, quantity |-> 0]
EmptyView == [id |-> NULL, items |-> {}, itemCount |-> 0, total |-> 0]

\* ------------------------------------------------------------- variables
VARIABLES
  stock,               \* products.stock_quantity, by id of the products rows
  price,               \* products.price in cents, by id of the products rows
  carts,               \* rows of table carts
  cartItems,           \* rows of table cart_items
  orders,              \* rows of table orders
  orderItems,          \* rows of table order_items
  orderStatusHistory,  \* rows of table order_status_history, oldest first
  nextId,              \* the serial sequences of carts, cart_items, orders
  req,                 \* the request each client has in flight, or its last response
  started,             \* number of requests received so far
  dbFailures,          \* number of statements the store has failed
  initStock            \* stock at the start (history variable)

vars == <<stock, price, carts, cartItems, orders, orderItems,
          orderStatusHistory, nextId, req, started, dbFailures, initStock>>

tables == <<stock, price, carts, cartItems, orders, orderItems, orderStatusHistory>>
orderTables == <<stock, price, orders, orderItems, orderStatusHistory>>

\* --------------------------------------------------------------- helpers
\* all the orders in which a select without ORDER BY may return the rows S
RECURSIVE SeqsOf(_)
SeqsOf(S) ==
  IF S = {} THEN {<<>>}
  ELSE UNION {{<<x>> \o s : s \in SeqsOf(S \ {x})} : x \in S}

RECURSIVE SumSeq(_)
SumSeq(s) == IF s = <<>> THEN 0 ELSE Head(s) + SumSeq(Tail(s))

\* sum of the quantities of a set of rows
RECURSIVE SumQuantity(_)
SumQuantity(S) ==
  IF S = {} THEN 0
  ELSE LET x == CHOOSE y \in S : TRUE IN x.quantity + SumQuantity(S \ {x})

Idle ==
  [op |-> "none", pc |-> "idle", userId |-> NULL, sessionId |-> NULL,
   productId |-> 0, quantity |-> 0, itemId |-> 0,
   cartId |-> 0, guestCartId |-> 0, rows |-> <<>>, i |-> 0, orderId |-> 0,
   stockRead |-> 0, existing |-> NoItem,
   status |-> 0, error |-> "", detail |-> <<>>, view |-> EmptyView,
   before |-> {}, merged |-> {},
   token |-> NULL, cookie |-> NULL, created |-> FALSE,
   data |-> [price |-> {}, stockQuantity |-> {}]]

\* the handler returns c.json(..., status)
Respond(r, status, error, detail) ==
  [r EXCEPT !.pc = "done", !.status = status, !.error = error, !.detail = detail]

InFlight(c) == req[c].pc \notin {"idle", "done"}

\* ------------------------------------------------ schema (constraints)
\* CONSTRAINT stock_quantity_check CHECK (stock_quantity >= 0)
StockQuantityCheck(v) == v >= 0

\* CONSTRAINT orders_order_number_unique UNIQUE (order_number)
OrderNumberUnique(n) == \A o \in orders : o.orderNumber # n

\* ---------------------------------------------------------- checkout.ts
\* Number(item.product.price): the decimal string as a double; the model
\* counts doubles in tenths of a cent
NumberOfPrice(p) == p * 10

\* totalAmount.toFixed(2): the double rounded to the nearest cent
ToFixed2(x) == (x + 5) \div 10

\* the loop accumulating totalAmount; e is the rounding error of the
\* double arithmetic, far below a cent
TotalAmountNoQty(rows, e) ==
  SumSeq([k \in 1..Len(rows) |-> NumberOfPrice(rows[k].price)]) + e
TotalAmount(rows, e) ==
  SumSeq([k \in 1..Len(rows) |-> NumberOfPrice(rows[k].price) * rows[k].quantity]) + e

\* cartItems INNER JOIN products WHERE cart_id = cartId
JoinCartItems(cartId) ==
  {[itemId |-> l.id, productId |-> l.productId, quantity |-> l.quantity,
    stockQuantity |-> stock[l.productId], price |-> price[l.productId]] :
     l \in {x \in cartItems : x.cartId = cartId}}

\* item.product.stockQuantity < item.cartItem.quantity
InsufficientMut(item) == item.stockQuantity + 1 < item.quantity
Insufficient(item) == item.stockQuantity < item.quantity

\* index of the first row of the stock-check loop that returns, 0 if none
FirstInsufficient(rows) ==
  IF \E k \in 1..Len(rows) : Insufficient(rows[k])
  THEN CHOOSE k \in 1..Len(rows) :
         /\ Insufficient(rows[k])
         /\ \A j \in 1..(k - 1) : ~Insufficient(rows[j])
  ELSE 0

\* orderItemsData
OrderItemsData(orderId, rows) ==
  {[orderId |-> orderId, productId |-> rows[k].productId,
    quantity |-> rows[k].quantity, priceAtTime |-> rows[k].price] :
     k \in 1..Len(rows)}

\* generateOrderNumber(): order numbers are opaque and only compared for
\* equality, so a fresh random number is represented by the least unused
\* one and a colliding one by any number already taken
GenerateOrderNumber ==
  {o.orderNumber : o \in orders} \cup
  (LET free == {n \in OrderNumbers : \A o \in orders : o.orderNumber # n} IN
     IF free = {} THEN {} ELSE {CHOOSE n \in free : \A m \in free : n <= m})

\* the request r is received on connection c; before records the cart lines
\* in the store at that moment (history, read by no handler)
Receive(c, r) ==
  /\ req' = [req EXCEPT ![c] = [r EXCEPT !.before = cartItems]]
  /\ started' = started + 1
  /\ UNCHANGED <<tables, nextId, dbFailures, initStock>>

\* POST /checkout (requireAuth passed: the caller is user u)
StartCheckout(c, u) ==
  Receive(c, [Idle EXCEPT !.op = "checkout", !.pc = "co_cart", !.userId = u])

\* select from carts where userId = ... limit 1
CheckoutSelectCartCreates(c) ==
  /\ req[c].pc = "co_cart"
  /\ LET found == {ct \in carts : ct.userId = req[c].userId} IN
       IF found = {}
       THEN /\ carts' = carts \cup {[id |-> nextId.carts, userId |-> req[c].userId,
                                     sessionId |-> NULL]}
            /\ nextId' = [nextId EXCEPT !.carts = @ + 1]
            /\ req' = [req EXCEPT ![c] = [@ EXCEPT !.pc = "co_items", !.cartId = nextId.carts]]
       ELSE /\ \E ct \in found :
                 req' = [req EXCEPT ![c] = [@ EXCEPT !.pc = "co_items", !.cartId = ct.id]]
            /\ UNCHANGED <<carts, nextId>>
  /\ UNCHANGED <<cartItems, orderTables, started, dbFailures, initStock>>
CheckoutSelectCart(c) ==
  /\ req[c].pc = "co_cart"
  /\ LET found == {ct \in carts : ct.userId = req[c].userId} IN
       IF found = {}
       THEN req' = [req EXCEPT ![c] = Respond(@, 400, "Cart not found", <<>>)]
       ELSE \E ct \in found :
              req' = [req EXCEPT ![c] = [@ EXCEPT !.pc = "co_items", !.cartId = ct.id]]
  /\ UNCHANGED <<tables, nextId, started, dbFailures, initStock>>

\* select the cart's lines joined with products, then the stock-check loop
CheckoutSelectItems(c) ==
  /\ req[c].pc = "co_items"
  /\ LET joined == JoinCartItems(req[c].cartId) IN
       IF joined = {}
       THEN req' = [req EXCEPT ![c] = Respond(@, 400, "Cart is empty", <<>>)]
       ELSE \E rows \in SeqsOf(joined) :
              LET k == FirstInsufficient(rows) IN
                IF k # 0
                THEN req' = [req EXCEPT ![c] =
                       Respond([@ EXCEPT !.rows = rows], 400, "Insufficient stock",
                               <<rows[k].productId, rows[k].stockQuantity, rows[k].quantity>>)]
                ELSE req' = [req EXCEPT ![c] = [@ EXCEPT !.pc = "co_order", !.rows = rows]]
  /\ UNCHANGED <<tables, nextId, started, dbFailures, initStock>>

\* generateOrderNumber(), then insert into orders ... returning
CheckoutInsertOrder(c) ==
  /\ req[c].pc = "co_order"
  /\ \E n \in GenerateOrderNumber, e \in FloatErr :
       IF OrderNumberUnique(n)
       THEN /\ orders' = orders \cup
                 {[id |-> nextId.orders, userId |-> req[c].userId, orderNumber |-> n,
                   totalAmount |-> ToFixed2(TotalAmount(req[c].rows, e)),
                   status |-> "pending"]}
            /\ nextId' = [nextId EXCEPT !.orders = @ + 1]
            /\ req' = [req EXCEPT ![c] = [@ EXCEPT !.pc = "co_lines", !.orderId = nextId.orders]]
       ELSE /\ req' = [req EXCEPT ![c] = Respond(@, 500, "Internal server error", <<>>)]
            /\ UNCHANGED <<orders, nextId>>
  /\ UNCHANGED <<stock, price, carts, cartItems, orderItems, orderStatusHistory,
                 started, dbFailures, initStock>>

\* insert into order_items values (orderItemsData)
CheckoutInsertOrderItems(c) ==
  /\ req[c].pc = "co_lines"
  /\ orderItems' = orderItems \cup OrderItemsData(req[c].orderId, req[c].rows)
  /\ req' = [req EXCEPT ![c] = [@ EXCEPT !.pc = "co_stock", !.i = 1]]
  /\ UNCHANGED <<stock, price, carts, cartItems, orders, orderStatusHistory,
                 nextId, started, dbFailures, initStock>>

\* one iteration of the loop: update products set stockQuantity = ...
CheckoutUpdateStockRelative(c) ==
  /\ req[c].pc = "co_stock"
  /\ LET item == req[c].rows[req[c].i] IN
       /\ stock' = [stock EXCEPT ![item.productId] = @ - item.quantity]
       /\ req' = [req EXCEPT ![c] =
            IF req[c].i = Len(req[c].rows)
            THEN [@ EXCEPT !.pc = "co_status"]
            ELSE [@ EXCEPT !.i = @ + 1]]
  /\ UNCHANGED <<price, carts, cartItems, orders, orderItems, orderStatusHistory,
                 nextId, started, dbFailures, initStock>>
CheckoutUpdateStock(c) ==
  /\ req[c].pc = "co_stock"
  /\ LET item == req[c].rows[req[c].i]
         v == item.stockQuantity - item.quantity IN
       IF StockQuantityCheck(v)
       THEN /\ stock' = [stock EXCEPT ![item.productId] = v]
            /\ req' = [req EXCEPT ![c] =
                 IF req[c].i = Len(req[c].rows)
                 THEN [@ EXCEPT !.pc = "co_status"]
                 ELSE [@ EXCEPT !.i = @ + 1]]
       ELSE /\ req' = [req EXCEPT ![c] = Respond(@, 500, "Internal server error", <<>>)]
            /\ UNCHANGED stock
  /\ UNCHANGED <<price, carts, cartItems, orders, orderItems, orderStatusHistory,
                 nextId, started, dbFailures, initStock>>

\* insert into order_status_history (pending, 'Order created')
CheckoutInsertStatus(c) ==
  /\ req[c].pc = "co_status"
  /\ orderStatusHistory' = Append(orderStatusHistory,
       [orderId |-> req[c].orderId, status |-> "pending", notes |-> "Order created"])
  /\ req' = [req EXCEPT ![c] = [@ EXCEPT !.pc = "co_clear"]]
  /\ UNCHANGED <<stock, price, carts, cartItems, orders, orderItems,
                 nextId, started, dbFailures, initStock>>

\* delete from cart_items where cart_id = cart.id
CheckoutDeleteCartItemsSkipped(c) ==
  /\ req[c].pc = "co_clear"
  /\ cartItems' = cartItems
  /\ req' = [req EXCEPT ![c] = [@ EXCEPT !.pc = "co_view"]]
  /\ UNCHANGED <<stock, price, carts, orders, orderItems, orderStatusHistory,
                 nextId, started, dbFailures, initStock>>
CheckoutDeleteCartItems(c) ==
  /\ req[c].pc = "co_clear"
  /\ cartItems' = {l \in cartItems : l.cartId # req[c].cartId}
  /\ req' = [req EXCEPT ![c] = [@ EXCEPT !.pc = "co_view"]]
  /\ UNCHANGED <<stock, price, carts, orders, orderItems, orderStatusHistory,
                 nextId, started, dbFailures, initStock>>

\* select the order's items and status history, return 201
CheckoutRespond(c) ==
  /\ req[c].pc = "co_view"
  /\ req' = [req EXCEPT ![c] = Respond(@, 201, "", <<>>)]
  /\ UNCHANGED <<tables, nextId, started, dbFailures, initStock>>

\* the store fails the write statement a checkout or a login is about to
\* run; neither handler catches, the exception leaves the handler and
\* errorHandler answers 500
CheckoutWritePcs == {"co_order", "co_lines", "co_stock", "co_status", "co_clear"}
LoginWritePcs == {"lg_newcart", "lg_write", "lg_delitems", "lg_delcart"}
DbFail(c) ==
  /\ req[c].pc \in CheckoutWritePcs \cup LoginWritePcs
  /\ dbFailures < MaxDbFailures
  /\ dbFailures' = dbFailures + 1
  /\ req' = [req EXCEPT ![c] = Respond(@, 500, "Internal server error", <<>>)]
  /\ UNCHANGED <<tables, nextId, started, initStock>>

Checkout(c) ==
  \/ CheckoutSelectCart(c)
  \/ CheckoutSelectItems(c)
  \/ CheckoutInsertOrder(c)
  \/ CheckoutInsertOrderItems(c)
  \/ CheckoutUpdateStock(c)
  \/ CheckoutInsertStatus(c)
  \/ CheckoutDeleteCartItems(c)
  \/ CheckoutRespond(c)

\* ------------------------------------------------ cart routes (cart.ts)
\* CONSTRAINT unique_cart_item UNIQUE (cart_id, product_id)
UniqueCartItemNone(cartId, productId) == TRUE
UniqueCartItem(cartId, productId) ==
  \A l \in cartItems : ~(l.cartId = cartId /\ l.productId = productId)

\* CONSTRAINT cart_quantity_check CHECK (quantity > 0)
CartQuantityCheck(q) == q > 0

\* cart_items.cart_id REFERENCES carts(id)
CartExists(cartId) == \E ct \in carts : ct.id = cartId

\* getUserIdFromToken / getOrCreateSessionId: the identity of a request is
\* the user id of a valid bearer token, else the session cookie
UserIdentity(u) == [userId |-> u, sessionId |-> NULL]
GuestIdentity(s) == [userId |-> NULL, sessionId |-> s]

\* userId = getUserIdFromToken(c); sessionId = userId ? null :
\* getOrCreateSessionId(c), for a request with the headers h (the user of
\* its bearer token, NULL without a valid one, and its session cookie)
ResolveIdentityCookieFirst(h) ==
  IF h.cookie # NULL THEN GuestIdentity(h.cookie) ELSE UserIdentity(h.token)
ResolveIdentity(h) ==
  IF h.token # NULL THEN UserIdentity(h.token) ELSE GuestIdentity(h.cookie)

\* a cart request with the headers h, before its handler has run
CartRequest(h, op, pc) ==
  [Idle EXCEPT !.op = op, !.pc = pc, !.token = h.token, !.cookie = h.cookie,
               !.userId = ResolveIdentity(h).userId,
               !.sessionId = ResolveIdentity(h).sessionId]

\* the select of getOrCreateCart, GET /cart and DELETE /cart
FindCarts(r) ==
  IF r.userId # NULL
  THEN {ct \in carts : ct.userId = r.userId}
  ELSE {ct \in carts : ct.sessionId = r.sessionId}

\* buildCartResponse(cartId); amounts are doubles, in tenths of a cent
BuildCartResponseAddTimePrice(cartId) ==
  LET lines == {l \in cartItems : l.cartId = cartId /\ l.productId \in DOMAIN price}
      items == {[id |-> l.id, productId |-> l.productId,
                 price |-> NumberOfPrice(1000), quantity |-> l.quantity,
                 subtotal |-> NumberOfPrice(1000) * l.quantity] : l \in lines}
      RECURSIVE SumSubtotal(_)
      SumSubtotal(S) ==
        IF S = {} THEN 0
        ELSE LET x == CHOOSE y \in S : TRUE IN x.subtotal + SumSubtotal(S \ {x})
  IN [id |-> cartId, items |-> items,
      itemCount |-> SumQuantity(items), total |-> SumSubtotal(items)]
BuildCartResponse(cartId) ==
  LET lines == {l \in cartItems : l.cartId = cartId /\ l.productId \in DOMAIN price}
      items == {[id |-> l.id, productId |-> l.productId,
                 price |-> NumberOfPrice(price[l.productId]),
                 quantity |-> l.quantity,
                 subtotal |-> NumberOfPrice(price[l.productId]) * l.quantity] : l \in lines}
      RECURSIVE SumSubtotal(_)
      SumSubtotal(S) ==
        IF S = {} THEN 0
        ELSE LET x == CHOOSE y \in S : TRUE IN x.subtotal + SumSubtotal(S \ {x})
  IN [id |-> cartId, items |-> items,
      itemCount |-> SumQuantity(items), total |-> SumSubtotal(items)]

StartAdd(c, h, p, q) ==
  Receive(c, [CartRequest(h, "add", "add_product") EXCEPT !.productId = p, !.quantity = q])

StartUpdate(c, h, itemId, q) ==
  Receive(c, [CartRequest(h, "update", "goc_select") EXCEPT !.itemId = itemId, !.quantity = q])

StartRemove(c, h, itemId) ==
  Receive(c, [CartRequest(h, "remove", "goc_select") EXCEPT !.itemId = itemId])

StartClear(c, h) ==
  Receive(c, CartRequest(h, "clear", "clr_cart"))

StartGet(c, h) ==
  Receive(c, CartRequest(h, "get", "get_cart"))

\* POST /cart/items: select the product, first stock check
AddSelectProduct(c) ==
  /\ req[c].pc = "add_product"
  /\ req' = [req EXCEPT ![c] =
       IF req[c].productId \notin DOMAIN stock
       THEN Respond(@, 404, "Product not found", <<>>)
       ELSE IF stock[req[c].productId] < req[c].quantity
       THEN Respond(@, 400, "Insufficient stock", <<>>)
       ELSE [@ EXCEPT !.pc = "goc_select", !.stockRead = stock[req[c].productId]]]
  /\ UNCHANGED <<tables, nextId, started, dbFailures, initStock>>

\* where the handler continues once getOrCreateCart has returned
AfterCart(op) ==
  CASE op = "add" -> "add_existing"
    [] op = "update" -> "upd_item"
    [] op = "remove" -> "rem_item"

\* getOrCreateCart: select the cart of the identity (and refresh expiresAt)
GetOrCreateCartSelect(c) ==
  /\ req[c].pc = "goc_select"
  /\ LET found == FindCarts(req[c]) IN
       IF found = {}
       THEN req' = [req EXCEPT ![c] = [@ EXCEPT !.pc = "goc_insert"]]
       ELSE \E ct \in found :
              req' = [req EXCEPT ![c] = [@ EXCEPT !.pc = AfterCart(req[c].op), !.cartId = ct.id]]
  /\ UNCHANGED <<tables, nextId, started, dbFailures, initStock>>

\* getOrCreateCart: insert into carts (userId, sessionId, expiresAt)
GetOrCreateCartInsertBoth(c) ==
  /\ req[c].pc = "goc_insert"
  /\ \E s \in Sessions :
       carts' = carts \cup {[id |-> nextId.carts, userId |-> req[c].userId, sessionId |-> s]}
  /\ nextId' = [nextId EXCEPT !.carts = @ + 1]
  /\ req' = [req EXCEPT ![c] = [@ EXCEPT !.pc = AfterCart(req[c].op), !.cartId = nextId.carts]]
  /\ UNCHANGED <<cartItems, orderTables, started, dbFailures, initStock>>
\* created records that this request has inserted a cart (history)
GetOrCreateCartInsert(c) ==
  /\ req[c].pc = "goc_insert"
  /\ carts' = carts \cup {[id |-> nextId.carts, userId |-> req[c].userId,
                           sessionId |-> req[c].sessionId]}
  /\ nextId' = [nextId EXCEPT !.carts = @ + 1]
  /\ req' = [req EXCEPT ![c] = [@ EXCEPT !.pc = AfterCart(req[c].op), !.cartId = nextId.carts,
                                          !.created = TRUE]]
  /\ UNCHANGED <<cartItems, orderTables, started, dbFailures, initStock>>

\* POST /cart/items: select the line of this product in the cart
AddSelectExisting(c) ==
  /\ req[c].pc = "add_existing"
  /\ LET found == {l \in cartItems : l.cartId = req[c].cartId /\ l.productId = req[c].productId} IN
       IF found = {}
       THEN req' = [req EXCEPT ![c] = [@ EXCEPT !.pc = "add_write", !.existing = NoItem]]
       ELSE \E l \in found :
              req' = [req EXCEPT ![c] = [@ EXCEPT !.pc = "add_write", !.existing = l]]
  /\ UNCHANGED <<tables, nextId, started, dbFailures, initStock>>

\* update cart_items set quantity = q where id = itemId
SetQuantity(itemId, q) ==
  {IF l.id = itemId THEN [l EXCEPT !.quantity = q] ELSE l : l \in cartItems}

\* the combined stock check of POST /cart/items
NewQuantity(r) == r.existing.quantity + r.quantity
ExceedsStockFirstOnly(r) == r.quantity > r.stockRead
ExceedsStock(r) == NewQuantity(r) > r.stockRead

\* POST /cart/items: update the existing line or insert a new one
AddWrite(c) ==
  /\ req[c].pc = "add_write"
  /\ IF req[c].existing.id # 0
     THEN IF ExceedsStock(req[c])
          THEN /\ req' = [req EXCEPT ![c] =
                    Respond(@, 400, "Insufficient stock for updated quantity", <<>>)]
               /\ UNCHANGED <<cartItems, nextId>>
          ELSE /\ cartItems' = SetQuantity(req[c].existing.id, NewQuantity(req[c]))
               /\ req' = [req EXCEPT ![c] = [@ EXCEPT !.pc = "view"]]
               /\ UNCHANGED nextId
     ELSE IF /\ UniqueCartItem(req[c].cartId, req[c].productId)
             /\ CartExists(req[c].cartId)
             /\ CartQuantityCheck(req[c].quantity)
          THEN /\ cartItems' = cartItems \cup
                    {[id |-> nextId.cartItems, cartId |-> req[c].cartId,
                      productId |-> req[c].productId, quantity |-> req[c].quantity]}
               /\ nextId' = [nextId EXCEPT !.cartItems = @ + 1]
               /\ req' = [req EXCEPT ![c] = [@ EXCEPT !.pc = "view"]]
          ELSE /\ req' = [req EXCEPT ![c] = Respond(@, 500, "Failed to add item to cart", <<>>)]
               /\ UNCHANGED <<cartItems, nextId>>
  /\ UNCHANGED <<carts, orderTables, started, dbFailures, initStock>>

\* the handler ends with buildCartResponse(cart.id)
CartView(c) ==
  /\ req[c].pc = "view"
  /\ req' = [req EXCEPT ![c] =
       [Respond(@, 200, "", <<>>) EXCEPT !.view = BuildCartResponse(req[c].cartId)]]
  /\ UNCHANGED <<tables, nextId, started, dbFailures, initStock>>

\* PUT /cart/items/:id and DELETE /cart/items/:id: select the line by id
\* and cart id
SelectOwnItemByIdOnly(c) ==
  /\ req[c].pc \in {"upd_item", "rem_item"}
  /\ LET found == {l \in cartItems : l.id = req[c].itemId} IN
       IF found = {}
       THEN req' = [req EXCEPT ![c] = Respond(@, 404, "Cart item not found", <<>>)]
       ELSE \E l \in found :
              req' = [req EXCEPT ![c] =
                [@ EXCEPT !.pc = IF req[c].op = "update" THEN "upd_product" ELSE "rem_delete",
                          !.existing = l]]
  /\ UNCHANGED <<tables, nextId, started, dbFailures, initStock>>
SelectOwnItem(c) ==
  /\ req[c].pc \in {"upd_item", "rem_item"}
  /\ LET found == {l \in cartItems : l.id = req[c].itemId /\ l.cartId = req[c].cartId} IN
       IF found = {}
       THEN req' = [req EXCEPT ![c] = Respond(@, 404, "Cart item not found", <<>>)]
       ELSE \E l \in found :
              req' = [req EXCEPT ![c] =
                [@ EXCEPT !.pc = IF req[c].op = "update" THEN "upd_product" ELSE "rem_delete",
                          !.existing = l]]
  /\ UNCHANGED <<tables, nextId, started, dbFailures, initStock>>

\* PUT /cart/items/:id: select the product, stock check
UpdateSelectProductUnchecked(c) ==
  /\ req[c].pc = "upd_product"
  /\ req' = [req EXCEPT ![c] =
       IF req[c].existing.productId \notin DOMAIN stock
       THEN Respond(@, 404, "Product not found", <<>>)
       ELSE [@ EXCEPT !.pc = "upd_write", !.stockRead = stock[req[c].existing.productId]]]
  /\ UNCHANGED <<tables, nextId, started, dbFailures, initStock>>
UpdateSelectProduct(c) ==
  /\ req[c].pc = "upd_product"
  /\ req' = [req EXCEPT ![c] =
       IF req[c].existing.productId \notin DOMAIN stock
       THEN Respond(@, 404, "Product not found", <<>>)
       ELSE IF req[c].quantity > stock[req[c].existing.productId]
       THEN Respond(@, 400, "Insufficient stock", <<>>)
       ELSE [@ EXCEPT !.pc = "upd_write", !.stockRead = stock[req[c].existing.productId]]]
  /\ UNCHANGED <<tables, nextId, started, dbFailures, initStock>>

\* PUT /cart/items/:id: update cart_items set quantity where id = itemId
UpdateWriteDecrement(c) ==
  /\ req[c].pc = "upd_write"
  /\ cartItems' = SetQuantity(req[c].itemId, req[c].existing.quantity - req[c].quantity)
  /\ req' = [req EXCEPT ![c] = [@ EXCEPT !.pc = "view"]]
  /\ UNCHANGED <<carts, orderTables, nextId, started, dbFailures, initStock>>
UpdateWrite(c) ==
  /\ req[c].pc = "upd_write"
  /\ cartItems' = SetQuantity(req[c].itemId, req[c].quantity)
  /\ req' = [req EXCEPT ![c] = [@ EXCEPT !.pc = "view"]]
  /\ UNCHANGED <<carts, orderTables, nextId, started, dbFailures, initStock>>

\* DELETE /cart/items/:id: delete from cart_items where id = itemId
RemoveDelete(c) ==
  /\ req[c].pc = "rem_delete"
  /\ cartItems' = {l \in cartItems : l.id # req[c].itemId}
  /\ req' = [req EXCEPT ![c] = [@ EXCEPT !.pc = "view"]]
  /\ UNCHANGED <<carts, orderTables, nextId, started, dbFailures, initStock>>

\* GET /cart and DELETE /cart: select the cart of the identity
SelectCart(c) ==
  /\ req[c].pc \in {"get_cart", "clr_cart"}
  /\ LET found == FindCarts(req[c]) IN
       IF found = {}
       THEN req' = [req EXCEPT ![c] = Respond(@, 200, "", <<>>)]
       ELSE \E ct \in found :
              req' = [req EXCEPT ![c] =
                [@ EXCEPT !.pc = IF req[c].op = "get" THEN "view" ELSE "clr_items",
                          !.cartId = ct.id]]
  /\ UNCHANGED <<tables, nextId, started, dbFailures, initStock>>

\* DELETE /cart: delete from cart_items where cart_id = cart.id
ClearDeleteItems(c) ==
  /\ req[c].pc = "clr_items"
  /\ cartItems' = {l \in cartItems : l.cartId # req[c].cartId}
  /\ req' = [req EXCEPT ![c] = [@ EXCEPT !.pc = "clr_row"]]
  /\ UNCHANGED <<carts, orderTables, nextId, started, dbFailures, initStock>>

\* DELETE /cart: delete from carts where id = cart.id (cascades to lines)
ClearDeleteCartSkipped(c) ==
  /\ req[c].pc = "clr_row"
  /\ req' = [req EXCEPT ![c] = Respond(@, 200, "", <<>>)]
  /\ UNCHANGED <<tables, nextId, started, dbFailures, initStock>>
ClearDeleteCart(c) ==
  /\ req[c].pc = "clr_row"
  /\ carts' = {ct \in carts : ct.id # req[c].cartId}
  /\ cartItems' = {l \in cartItems : l.cartId # req[c].cartId}
  /\ req' = [req EXCEPT ![c] = Respond(@, 200, "", <<>>)]
  /\ UNCHANGED <<orderTables, nextId, started, dbFailures, initStock>>

CartRoutes(c) ==
  \/ AddSelectProduct(c)
  \/ GetOrCreateCartSelect(c)
  \/ GetOrCreateCartInsert(c)
  \/ AddSelectExisting(c)
  \/ AddWrite(c)
  \/ SelectOwnItem(c)
  \/ UpdateSelectProduct(c)
  \/ UpdateWrite(c)
  \/ RemoveDelete(c)
  \/ SelectCart(c)
  \/ ClearDeleteItems(c)
  \/ ClearDeleteCart(c)
  \/ CartView(c)

\* --------------------------------------------------- POST /auth/login
\* the credentials are those of user u; s is the x-session-id header
StartLogin(c, u, s) ==
  Receive(c, [Idle EXCEPT !.op = "login", !.userId = u, !.sessionId = s,
                          !.pc = IF s # NULL THEN "lg_guest" ELSE "lg_token"])

\* select the guest cart: sessionId = s and userId is null
LoginSelectGuestCart(c) ==
  /\ req[c].pc = "lg_guest"
  /\ LET found == {ct \in carts : ct.sessionId = req[c].sessionId /\ ct.userId = NULL} IN
       IF found = {}
       THEN req' = [req EXCEPT ![c] = [@ EXCEPT !.pc = "lg_token"]]
       ELSE \E ct \in found :
              req' = [req EXCEPT ![c] = [@ EXCEPT !.pc = "lg_items", !.guestCartId = ct.id]]
  /\ UNCHANGED <<tables, nextId, started, dbFailures, initStock>>

\* select the lines of the guest cart
LoginSelectGuestItemsUnguarded(c) ==
  /\ req[c].pc = "lg_items"
  /\ LET found == {l \in cartItems : l.cartId = req[c].guestCartId} IN
       IF found = {}
       THEN req' = [req EXCEPT ![c] = [@ EXCEPT !.pc = "lg_delitems"]]
       ELSE \E rows \in SeqsOf(found) :
              req' = [req EXCEPT ![c] = [@ EXCEPT !.pc = "lg_usercart", !.rows = rows]]
  /\ UNCHANGED <<tables, nextId, started, dbFailures, initStock>>
LoginSelectGuestItems(c) ==
  /\ req[c].pc = "lg_items"
  /\ LET found == {l \in cartItems : l.cartId = req[c].guestCartId} IN
       IF found = {}
       THEN req' = [req EXCEPT ![c] = [@ EXCEPT !.pc = "lg_token"]]
       ELSE \E rows \in SeqsOf(found) :
              req' = [req EXCEPT ![c] = [@ EXCEPT !.pc = "lg_usercart", !.rows = rows]]
  /\ UNCHANGED <<tables, nextId, started, dbFailures, initStock>>

\* find the user's cart
LoginSelectUserCart(c) ==
  /\ req[c].pc = "lg_usercart"
  /\ LET found == {ct \in carts : ct.userId = req[c].userId} IN
       IF found = {}
       THEN req' = [req EXCEPT ![c] = [@ EXCEPT !.pc = "lg_newcart"]]
       ELSE \E ct \in found :
              req' = [req EXCEPT ![c] = [@ EXCEPT !.pc = "lg_find", !.cartId = ct.id, !.i = 1]]
  /\ UNCHANGED <<tables, nextId, started, dbFailures, initStock>>

\* or create it: insert into carts (userId, expiresAt)
LoginInsertUserCart(c) ==
  /\ req[c].pc = "lg_newcart"
  /\ carts' = carts \cup {[id |-> nextId.carts, userId |-> req[c].userId, sessionId |-> NULL]}
  /\ nextId' = [nextId EXCEPT !.carts = @ + 1]
  /\ req' = [req EXCEPT ![c] = [@ EXCEPT !.pc = "lg_find", !.cartId = nextId.carts, !.i = 1]]
  /\ UNCHANGED <<cartItems, orderTables, started, dbFailures, initStock>>

\* merge loop: find the line of the guest item's product in the user cart
LoginFindExisting(c) ==
  /\ req[c].pc = "lg_find"
  /\ LET item == req[c].rows[req[c].i]
         found == {l \in cartItems : l.cartId = req[c].cartId /\ l.productId = item.productId} IN
       IF found = {}
       THEN req' = [req EXCEPT ![c] = [@ EXCEPT !.pc = "lg_write", !.existing = NoItem]]
       ELSE \E l \in found :
              req' = [req EXCEPT ![c] = [@ EXCEPT !.pc = "lg_write", !.existing = l]]
  /\ UNCHANGED <<tables, nextId, started, dbFailures, initStock>>

\* existingItem.quantity + item.quantity
MergedQuantityReplace(existing, item) == item.quantity
MergedQuantity(existing, item) == existing.quantity + item.quantity

\* merge loop: update the existing line or insert the guest item; merged
\* records the guest lines this login has written (history)
LoginMergeWrite(c) ==
  /\ req[c].pc = "lg_write"
  /\ LET item == req[c].rows[req[c].i]
         wrote == [req[c] EXCEPT !.merged = @ \cup {item.id}]
         next == IF req[c].i = Len(req[c].rows)
                 THEN [wrote EXCEPT !.pc = "lg_delitems"]
                 ELSE [wrote EXCEPT !.pc = "lg_find", !.i = @ + 1] IN
       IF req[c].existing.id # 0
       THEN /\ cartItems' = SetQuantity(req[c].existing.id, MergedQuantity(req[c].existing, item))
            /\ req' = [req EXCEPT ![c] = next]
            /\ UNCHANGED nextId
       ELSE IF /\ UniqueCartItem(req[c].cartId, item.productId)
               /\ CartExists(req[c].cartId)
            THEN /\ cartItems' = cartItems \cup
                      {[id |-> nextId.cartItems, cartId |-> req[c].cartId,
                        productId |-> item.productId, quantity |-> item.quantity]}
                 /\ nextId' = [nextId EXCEPT !.cartItems = @ + 1]
                 /\ req' = [req EXCEPT ![c] = next]
            ELSE /\ req' = [req EXCEPT ![c] = Respond(@, 500, "Internal server error", <<>>)]
                 /\ UNCHANGED <<cartItems, nextId>>
  /\ UNCHANGED <<carts, orderTables, started, dbFailures, initStock>>

\* delete from cart_items where cart_id = guestCart.id
LoginDeleteGuestItems(c) ==
  /\ req[c].pc = "lg_delitems"
  /\ cartItems' = {l \in cartItems : l.cartId # req[c].guestCartId}
  /\ req' = [req EXCEPT ![c] = [@ EXCEPT !.pc = "lg_delcart"]]
  /\ UNCHANGED <<carts, orderTables, nextId, started, dbFailures, initStock>>

\* delete from carts where id = guestCart.id
LoginDeleteGuestCartSkipped(c) ==
  /\ req[c].pc = "lg_delcart"
  /\ req' = [req EXCEPT ![c] = [@ EXCEPT !.pc = "lg_token"]]
  /\ UNCHANGED <<tables, nextId, started, dbFailures, initStock>>
LoginDeleteGuestCart(c) ==
  /\ req[c].pc = "lg_delcart"
  /\ carts' = {ct \in carts : ct.id # req[c].guestCartId}
  /\ cartItems' = {l \in cartItems : l.cartId # req[c].guestCartId}
  /\ req' = [req EXCEPT ![c] = [@ EXCEPT !.pc = "lg_token"]]
  /\ UNCHANGED <<orderTables, nextId, started, dbFailures, initStock>>

\* signJWT, return the token and the user
LoginToken(c) ==
  /\ req[c].pc = "lg_token"
  /\ req' = [req EXCEPT ![c] = Respond(@, 200, "", <<>>)]
  /\ UNCHANGED <<tables, nextId, started, dbFailures, initStock>>

Login(c) ==
  \/ LoginSelectGuestCart(c)
  \/ LoginSelectGuestItems(c)
  \/ LoginSelectUserCart(c)
  \/ LoginInsertUserCart(c)
  \/ LoginFindExisting(c)
  \/ LoginMergeWrite(c)
  \/ LoginDeleteGuestItems(c)
  \/ LoginDeleteGuestCart(c)
  \/ LoginToken(c)

\* ------------------------------------ PUT /admin/products/:id (products.ts)
\* the prices an admin sets, in cents
Prices == {500, 1000}

\* the bodies updateProductSchema accepts: price and stockQuantity are
\* optional (a field is the empty set when absent), price is positive and
\* stockQuantity is not negative; the admin reprices, restocks to the full,
\* or both
UpdateProductData ==
  {[price |-> x, stockQuantity |-> y] :
     x \in {{}} \cup {{v} : v \in Prices},
     y \in {{}, {MaxStock}}}

\* requireAuth and requireRole(['admin']) passed
StartAdminUpdate(c, p, data) ==
  Receive(c, [Idle EXCEPT !.op = "admin", !.pc = "ad_product", !.productId = p, !.data = data])

\* select the product by id; the body has no slug and no category
AdminSelectProduct(c) ==
  /\ req[c].pc = "ad_product"
  /\ req' = [req EXCEPT ![c] =
       IF req[c].productId \notin DOMAIN stock
       THEN Respond(@, 404, "Product not found", <<>>)
       ELSE [@ EXCEPT !.pc = "ad_update"]]
  /\ UNCHANGED <<tables, nextId, started, dbFailures, initStock>>

\* update products set ...data where id = id
AdminUpdateProductRepricing(c) ==
  /\ req[c].pc = "ad_update"
  /\ price' = [price EXCEPT ![req[c].productId] =
                 IF req[c].data.price = {} THEN @ ELSE CHOOSE v \in req[c].data.price : TRUE]
  /\ stock' = [stock EXCEPT ![req[c].productId] =
                 IF req[c].data.stockQuantity = {} THEN @
                 ELSE CHOOSE v \in req[c].data.stockQuantity : TRUE]
  /\ orderItems' = {[l EXCEPT !.priceAtTime = price'[l.productId]] : l \in orderItems}
  /\ req' = [req EXCEPT ![c] = Respond(@, 200, "", <<>>)]
  /\ UNCHANGED <<carts, cartItems, orders, orderStatusHistory,
                 nextId, started, dbFailures, initStock>>
AdminUpdateProduct(c) ==
  /\ req[c].pc = "ad_update"
  /\ price' = [price EXCEPT ![req[c].productId] =
                 IF req[c].data.price = {} THEN @ ELSE CHOOSE v \in req[c].data.price : TRUE]
  /\ stock' = [stock EXCEPT ![req[c].productId] =
                 IF req[c].data.stockQuantity = {} THEN @
                 ELSE CHOOSE v \in req[c].data.stockQuantity : TRUE]
  /\ req' = [req EXCEPT ![c] = Respond(@, 200, "", <<>>)]
  /\ UNCHANGED <<carts, cartItems, orders, orderItems, orderStatusHistory,
                 nextId, started, dbFailures, initStock>>

AdminRoutes(c) ==
  \/ AdminSelectProduct(c)
  \/ AdminUpdateProduct(c)

\* ------------------------------------------------------- initial states
\* The store starts with the products of a catalog and with carts that
\* earlier requests have left: at most one cart per identity, one line per
\* product, positive quantities (any such quantity can be in a cart, since
\* stock may have been sold after the line was added).
CartIdOf(id) == IF id.userId # NULL THEN id.userId ELSE Cardinality(Users) + 1
ItemIdOf(id, p) == (CartIdOf(id) - 1) * Cardinality(Products) + p
InitLines(id, q) ==
  {[id |-> ItemIdOf(id, p), cartId |-> CartIdOf(id), productId |-> p, quantity |-> q[p]] :
     p \in {x \in DOMAIN q : q[x] > 0}}

InitStore(catalog, identities, Held(_)) ==
  /\ stock \in [catalog -> 0..MaxStock]
  /\ initStock = stock
  /\ price = [p \in catalog |-> IF p = 1 THEN 1000 ELSE 500]
  /\ \E owners \in SUBSET identities :
       \E q \in [owners -> [catalog -> 0..MaxQty]] :
         /\ \A id \in owners : \A p \in catalog \ Held(id) : q[id][p] = 0
         /\ carts = {[id |-> CartIdOf(id), userId |-> id.userId, sessionId |-> id.sessionId] :
                       id \in owners}
         /\ cartItems = UNION {InitLines(id, q[id]) : id \in owners}
  /\ orders = {}
  /\ orderItems = {}
  /\ orderStatusHistory = <<>>
  /\ nextId = [carts |-> Cardinality(Users) + 2,
               cartItems |-> (Cardinality(Users) + 1) * Cardinality(Products) + 1,
               orders |-> 1]
  /\ req = [c \in Clients |-> Idle]
  /\ started = 0
  /\ dbFailures = 0

\* ------------------------------------------------------------ scheduling
\* concurrent clients: every connection carries one request, and the
\* connections being interchangeable, the lowest unused one takes the next
Concurrent(c) ==
  /\ req[c].pc = "idle"
  /\ \A d \in Clients : d < c => req[d].pc # "idle"

\* a single client that waits for each response before its next request
Sequential(c) ==
  /\ c = 1
  /\ ~InFlight(c)
  /\ started < MaxRequests

\* the requests of the shoppers: user 1 and the guest session; the browser
\* of user 1 still sends the session cookie with the bearer token
Shoppers == {UserIdentity(1)} \cup {GuestIdentity(s) : s \in Sessions}
Headers == {[token |-> u, cookie |-> s] : u \in {1, NULL}, s \in Sessions}
ItemIds == {l.id : l \in cartItems} \cup {0}

StartCartRequest(c) ==
  \E h \in Headers :
    \/ \E p \in DOMAIN stock, q \in 1..MaxQty : StartAdd(c, h, p, q)
    \/ \E itemId \in ItemIds, q \in 1..MaxQty : StartUpdate(c, h, itemId, q)
    \/ \E itemId \in ItemIds : StartRemove(c, h, itemId)
    \/ StartClear(c, h)
    \/ StartGet(c, h)

StartRequest(c) ==
  \/ StartCartRequest(c)
  \/ \E s \in Sessions \cup {NULL} : StartLogin(c, 1, s)
  \/ StartCheckout(c, 1)

\* ------------------------------------------------------- specifications
\* two concurrent checkouts over a catalog of two products; the cart of
\* user 1 may hold both products, that of user 2 the first one
HeldAtCheckout(id) == IF id.userId = 1 THEN Products ELSE {1}
InitCheckout == InitStore(Products, {UserIdentity(u) : u \in Users}, HeldAtCheckout)

NextCheckout ==
  \E c \in Clients :
    \/ Concurrent(c) /\ \E u \in Users : StartCheckout(c, u)
    \/ Checkout(c)
    \/ DbFail(c)

SpecCheckout == InitCheckout /\ [][NextCheckout]_vars

\* two concurrent requests of any kind over a catalog of one product
HeldAll(id) == Products
Init == InitStore({1}, Shoppers, HeldAll)

Next ==
  \E c \in Clients :
    \/ Concurrent(c) /\ StartRequest(c)
    \/ CartRoutes(c)
    \/ Login(c)
    \/ Checkout(c)
    \/ DbFail(c)

Spec == Init /\ [][Next]_vars

\* a sequence of requests of any kind, one at a time
NextSeq ==
  \E c \in Clients :
    \/ Sequential(c) /\ StartRequest(c)
    \/ CartRoutes(c)
    \/ Login(c)
    \/ Checkout(c)
    \/ DbFail(c)

SpecSeq == Init /\ [][NextSeq]_vars

\* two concurrent logins of user 1, with or without the guest session, over
\* a catalog of two products; login never reads the stock, which is full
InitLogin ==
  /\ InitStore(Products, Shoppers, HeldAll)
  /\ stock = [p \in Products |-> MaxStock]

NextLogin ==
  \E c \in Clients :
    \/ Concurrent(c) /\ \E s \in Sessions \cup {NULL} : StartLogin(c, 1, s)
    \/ Login(c)
    \/ DbFail(c)

SpecLogin == InitLogin /\ [][NextLogin]_vars

\* two concurrent requests among cart requests, checkouts of user 1 and
\* product updates of an admin, over a catalog of one product
NextAdmin ==
  \E c \in Clients :
    \/ Concurrent(c) /\ StartCartRequest(c)
    \/ Concurrent(c) /\ StartCheckout(c, 1)
    \/ Concurrent(c) /\ \E p \in Products, data \in UpdateProductData :
                          StartAdminUpdate(c, p, data)
    \/ CartRoutes(c)
    \/ Checkout(c)
    \/ AdminRoutes(c)
    \/ DbFail(c)

SpecAdmin == Init /\ [][NextAdmin]_vars

\* ------------------------------------------------------------ properties
IsCheckout(c) == req[c].op = "checkout"
Succeeded(c) == IsCheckout(c) /\ req[c].pc = "done" /\ req[c].status = 201
LinesOf(orderId) == {l \in orderItems : l.orderId = orderId}
EventsOf(orderId) == SelectSeq(orderStatusHistory, LAMBDA e : e.orderId = orderId)
SoldQty(p) == SumQuantity({l \in orderItems : l.productId = p})
ItemIdsOf(rows) == {rows[k].itemId : k \in 1..Len(rows)}

\* none of the writes of the checkout of client c exists
NoWrites(c) ==
  /\ orders = {} /\ orderItems = {} /\ orderStatusHistory = <<>>
  /\ stock = initStock
  /\ ItemIdsOf(req[c].rows) \subseteq {l.id : l \in cartItems}

\* all the writes of the checkout of client c exist
AllWrites(c) ==
  /\ \E o \in orders : o.id = req[c].orderId
  /\ Cardinality(LinesOf(req[c].orderId)) = Len(req[c].rows)
  /\ \A k \in 1..Len(req[c].rows) :
       stock[req[c].rows[k].productId] =
         req[c].rows[k].stockQuantity - req[c].rows[k].quantity
  /\ Len(EventsOf(req[c].orderId)) = 1
  /\ \A l \in cartItems : l.cartId # req[c].cartId

\* C1: checkout is all-or-nothing.  Stated for the state a checkout that
\* ran alone leaves behind when it has returned, with or without an error:
\* either none of its writes exists or all of them do.
CheckoutAllOrNothing ==
  \A c \in Clients :
    (IsCheckout(c) /\ req[c].pc = "done" /\ started = 1)
      => (NoWrites(c) \/ AllWrites(c))

\* C2: when a line of the cart asks for more than the stock the checkout
\* reads, the checkout answers 400 "Insufficient stock" naming an offending
\* product with the available and the requested quantity, and neither that
\* step nor the cart lookup before it changes any table.
InsufficientStockRejected ==
  [][\A c \in Clients :
       /\ (req[c].pc = "co_cart" /\ req'[c] # req[c]) => UNCHANGED tables
       /\ (req[c].pc = "co_items" /\ req'[c] # req[c]) =>
            LET joined == JoinCartItems(req[c].cartId)
                short == {x \in joined : x.quantity > x.stockQuantity} IN
              /\ UNCHANGED tables
              /\ short # {} =>
                   /\ req'[c].pc = "done"
                   /\ req'[c].status = 400
                   /\ req'[c].error = "Insufficient stock"
                   /\ \E x \in short :
                        req'[c].detail = <<x.productId, x.stockQuantity, x.quantity>>
              /\ short = {} => req'[c].status # 400 \/ joined = {}]_vars

\* a checkout of the cart (product 1: 2 of 2 in stock, product 2: 1 of 0)
\* was rejected naming product 2, available 0, requested 1; no order exists
InsufficientStockWitness ==
  \E c \in Clients :
    /\ IsCheckout(c) /\ req[c].pc = "done" /\ req[c].error = "Insufficient stock"
    /\ req[c].detail = <<2, 0, 1>>
    /\ \E k \in 1..Len(req[c].rows) :
         req[c].rows[k].productId = 1 /\ req[c].rows[k].quantity = 2
    /\ orders = {} /\ orderItems = {} /\ stock = initStock

\* C3: the stock quantity of every product is non-negative in every
\* reachable state, under any interleaving of cart requests, login merges
\* and checkouts.
StockNonNegative == \A p \in DOMAIN stock : stock[p] >= 0

\* two checkouts have both succeeded and the product is sold out
StockNonNegativeWitness ==
  /\ \A c \in Clients : Succeeded(c)
  /\ \E p \in DOMAIN stock : stock[p] = 0 /\ initStock[p] > 0

\* C4: once all checkouts have returned and none has failed, for every
\* product the initial stock equals the current stock plus the quantities
\* of all order lines of the product.
StockConservation ==
  (\A c \in Clients : ~InFlight(c) /\ req[c].status # 500)
    => \A p \in DOMAIN stock : initStock[p] = stock[p] + SoldQty(p)

\* two checkouts that both passed the stock check on the same reading of the
\* stock of p, asking together for more than it, and that both succeeded
Raced(c, d, p) ==
  /\ c # d /\ Succeeded(c) /\ Succeeded(d)
  /\ \E j \in 1..Len(req[c].rows), k \in 1..Len(req[d].rows) :
       /\ req[c].rows[j].productId = p /\ req[d].rows[k].productId = p
       /\ req[c].rows[j].stockQuantity = req[d].rows[k].stockQuantity
       /\ req[c].rows[j].quantity + req[d].rows[k].quantity > req[c].rows[j].stockQuantity

\* C5 as stated: two checkouts racing for the last units of a product
\* leave its stock quantity negative.
RaceDrivesStockNegative ==
  \A c, d \in Clients : \A p \in DOMAIN stock : Raced(c, d, p) => stock[p] < 0

\* C5 as amended: two checkouts racing for the last units of a product both
\* succeed; the stock quantity stays non-negative, but more units are sold
\* than were deducted from the stock.
RaceOversells ==
  \A c, d \in Clients : \A p \in DOMAIN stock :
    Raced(c, d, p) => stock[p] >= 0 /\ SoldQty(p) > initStock[p] - stock[p]

\* the two racing checkouts came from two different carts
RaceWitness ==
  \E c, d \in Clients : \E p \in DOMAIN stock :
    Raced(c, d, p) /\ req[c].cartId # req[d].cartId

\* C6: the order of a successful checkout has as total the sum over the
\* lines it read of price x quantity, and exactly one order line per line
\* read, with the line's product, quantity and that unit price.
OrderMatchesCart ==
  \A c \in Clients : Succeeded(c) =>
    LET rows == req[c].rows IN
      /\ \E o \in orders :
           /\ o.id = req[c].orderId
           /\ o.totalAmount = SumSeq([k \in 1..Len(rows) |-> rows[k].price * rows[k].quantity])
      /\ LinesOf(req[c].orderId) =
           {[orderId |-> req[c].orderId, productId |-> rows[k].productId,
             quantity |-> rows[k].quantity, priceAtTime |-> rows[k].price] : k \in 1..Len(rows)}
      /\ Cardinality(LinesOf(req[c].orderId)) = Len(rows)

\* an order of 2 x 10.00 + 1 x 5.00 = 25.00 with two order lines
OrderMatchesCartWitness ==
  \E c \in Clients :
    /\ Succeeded(c) /\ Len(req[c].rows) = 2
    /\ \E o \in orders : o.id = req[c].orderId /\ o.totalAmount = 2500
    /\ \E l \in LinesOf(req[c].orderId) : l.productId = 1 /\ l.quantity = 2 /\ l.priceAtTime = 1000

\* C7: every order that exists has a status history whose first event is
\* 'pending', and the order of a successful checkout is 'pending' with
\* exactly one status event, noted 'Order created'.
OrderHasPendingEvent ==
  /\ \A o \in orders :
       /\ EventsOf(o.id) # <<>>
       /\ EventsOf(o.id)[1].status = "pending"
  /\ \A c \in Clients : Succeeded(c) =>
       /\ \E o \in orders : o.id = req[c].orderId /\ o.status = "pending"
       /\ Len(EventsOf(req[c].orderId)) = 1
       /\ EventsOf(req[c].orderId)[1].notes = "Order created"

\* C8: the statement that ends a checkout leaves the cart without lines
\* (the cart row stays), and none of the lines a successful checkout has
\* purchased is in the store afterwards.
CheckoutEmptiesCart ==
  /\ [][\A c \in Clients :
          (req[c].pc = "co_clear" /\ req'[c].pc = "co_view") =>
            /\ \A l \in cartItems' : l.cartId # req[c].cartId
            /\ carts' = carts]_vars
  /\ [](\A c \in Clients : Succeeded(c) =>
          \A l \in cartItems : l.id \notin ItemIdsOf(req[c].rows))

\* a checkout has succeeded and left the cart row, without any line
CheckoutEmptiesCartWitness ==
  \E c \in Clients :
    /\ Succeeded(c)
    /\ \E ct \in carts : ct.id = req[c].cartId
    /\ \A l \in cartItems : l.cartId # req[c].cartId

\* C9: a cart never holds two lines of one product, and an add of a product
\* that the cart holds creates no line.
OneLinePerProduct ==
  /\ [](\A l, m \in cartItems :
          (l.cartId = m.cartId /\ l.productId = m.productId) => l = m)
  /\ [][\A c \in Clients :
          (/\ req[c].pc = "add_write" /\ req'[c] # req[c]
           /\ \E l \in cartItems : l.cartId = req[c].cartId /\ l.productId = req[c].productId)
            => {l.id : l \in cartItems'} = {l.id : l \in cartItems}]_vars

\* an add to a cart that held 1 unit of the product returned a cart with the
\* same line, now of 2 units
OneLinePerProductWitness ==
  \E c \in Clients :
    /\ req[c].op = "add" /\ req[c].pc = "done" /\ req[c].status = 200
    /\ req[c].existing.id # 0 /\ req[c].existing.quantity = 1
    /\ \E l \in cartItems :
         l.id = req[c].existing.id /\ l.cartId = req[c].cartId /\ l.quantity = 2

\* the lines of the product of the add of client c in the cart of its identity
HeldLines(c) ==
  {l \in cartItems : /\ l.productId = req[c].productId
                     /\ \E ct \in FindCarts(req[c]) : ct.id = l.cartId}

\* C10: an add of q2 to a cart that holds q1 of the product succeeds only
\* if q1 + q2 <= the current stock, and then the line holds q1 + q2; it is
\* rejected with 400 only if q1 + q2 > the current stock, and then the cart
\* lines are unchanged.
AddToHeldLine ==
  [][\A c \in Clients : \A l \in HeldLines(c) :
       (req[c].op = "add" /\ req[c].pc \in {"add_product", "add_write"}) =>
         /\ req'[c].pc = "view" =>
              /\ l.quantity + req[c].quantity <= stock[req[c].productId]
              /\ cartItems' = (cartItems \ {l}) \cup
                   {[l EXCEPT !.quantity = l.quantity + req[c].quantity]}
         /\ req'[c].pc = "done" =>
              /\ l.quantity + req[c].quantity > stock[req[c].productId]
              /\ req'[c].status = 400
              /\ cartItems' = cartItems]_vars

\* an add of 1 to a line of 1 has returned the cart with a line of 2
AddToHeldLineWitness ==
  \E c \in Clients :
    /\ req[c].op = "add" /\ req[c].pc = "done" /\ req[c].status = 200
    /\ req[c].quantity = 1 /\ req[c].existing.quantity = 1
    /\ req[c].view.itemCount = 2
    /\ \E l \in cartItems : l.id = req[c].existing.id /\ l.quantity = 2

\* ------------------------------------------------------ login properties
IsLogin(c) == req[c].op = "login"
\* the login of client c has merged a non-empty guest cart and returned
LoginMerged(c) ==
  IsLogin(c) /\ req[c].pc = "done" /\ req[c].status = 200 /\ req[c].rows # <<>>
\* the quantity of product p in the lines of a cart
QtyIn(lines, cartId, p) ==
  SumQuantity({l \in lines : l.cartId = cartId /\ l.productId = p})
\* the quantity of product p in the guest lines the login of c has read
GuestQty(c, p) ==
  SumQuantity({req[c].rows[k] : k \in {j \in 1..Len(req[c].rows) : req[c].rows[j].productId = p}})

\* C11: after a login that ran alone and merged the guest lines G into the
\* user's cart U, for every product p the cart holds at most one line of p,
\* of quantity U(p) + G(p) (a missing line counting 0), and the lines of
\* products that G does not hold are the lines U had.
MergeSumsQuantities ==
  \A c \in Clients : (LoginMerged(c) /\ started = 1) =>
    \A p \in Products :
      LET had == {l \in req[c].before : l.cartId = req[c].cartId /\ l.productId = p}
          now == {l \in cartItems : l.cartId = req[c].cartId /\ l.productId = p} IN
        /\ Cardinality(now) <= 1
        /\ SumQuantity(now) = QtyIn(req[c].before, req[c].cartId, p) + GuestQty(c, p)
        /\ SumQuantity(now) > 0 => Cardinality(now) = 1
        /\ GuestQty(c, p) = 0 => now = had

\* guest 2 + user 1 of product 1 gave one line of 3, and the guest's line of
\* product 2, which the user did not hold, is now in the user's cart
MergeSumsQuantitiesWitness ==
  \E c \in Clients :
    /\ LoginMerged(c) /\ started = 1
    /\ QtyIn(req[c].before, req[c].cartId, 1) = 1 /\ GuestQty(c, 1) = 2
    /\ QtyIn(cartItems, req[c].cartId, 1) = 3
    /\ QtyIn(req[c].before, req[c].cartId, 2) = 0 /\ GuestQty(c, 2) > 0
    /\ QtyIn(cartItems, req[c].cartId, 2) = GuestQty(c, 2)

\* C12: once a login has merged a guest cart, neither the row nor any line of
\* that cart is in the store; the statement that deletes the lines keeps the
\* row, and the row is deleted by the statement after it.
GuestCartDeleted ==
  /\ [](\A c \in Clients : LoginMerged(c) =>
          /\ \A ct \in carts : ct.id # req[c].guestCartId
          /\ \A l \in cartItems : l.cartId # req[c].guestCartId)
  /\ [][\A c \in Clients :
          /\ (req[c].pc = "lg_delitems" /\ req'[c].pc = "lg_delcart") =>
               /\ \A l \in cartItems' : l.cartId # req[c].guestCartId
               /\ carts' = carts
          /\ (req[c].pc = "lg_delcart" /\ req'[c].pc = "lg_token") =>
               \A ct \in carts' : ct.id # req[c].guestCartId]_vars

\* a login has merged and returned; the guest cart it found had lines when
\* the login arrived
GuestCartDeletedWitness ==
  \E c \in Clients :
    /\ LoginMerged(c) /\ req[c].guestCartId # 0
    /\ \E l \in req[c].before : l.cartId = req[c].guestCartId
    /\ \E ct \in carts : ct.id = req[c].cartId

\* C13: every login with valid credentials returns 200 with a token,
\* whatever happens in the merge.
LoginNeverFails ==
  \A c \in Clients : (IsLogin(c) /\ req[c].pc = "done") => req[c].status = 200

\* C14: no guest line is written into the user's cart by two successful
\* logins.
GuestLineMergedOnce ==
  \A c, d \in Clients :
    (c # d /\ LoginMerged(c) /\ LoginMerged(d)) => req[c].merged \cap req[d].merged = {}

\* C15: a login that has read no guest line (no guest cart, or one without
\* lines) changes no cart row and no cart line in any of its steps, and
\* returns 200.
EmptyMergeSkipped ==
  [][\A c \in Clients :
       (req'[c] # req[c] /\ IsLogin(c)' /\ req'[c].rows = <<>>) =>
         /\ carts' = carts
         /\ cartItems' = cartItems
         /\ req'[c].pc = "done" => req'[c].status = 200]_vars

\* a login with the session of a guest cart without lines has returned 200,
\* and the guest cart is still there
EmptyMergeSkippedWitness ==
  \E c \in Clients :
    /\ IsLogin(c) /\ req[c].pc = "done" /\ req[c].status = 200
    /\ req[c].rows = <<>> /\ req[c].guestCartId # 0
    /\ \E ct \in carts : ct.id = req[c].guestCartId
    /\ cartItems = req[c].before

\* ------------------------------------------------------- cart properties
\* C16: there is at most one cart per user id and at most one cart per
\* session token.
OneCartPerIdentity ==
  \A ct, cu \in carts :
    \/ ct = cu
    \/ /\ (ct.userId # NULL => ct.userId # cu.userId)
       /\ (ct.sessionId # NULL => ct.sessionId # cu.sessionId)

\* C17: every cart row has either a user id or a session token, never both
\* and never neither.
CartHasOneIdentity ==
  \A ct \in carts : (ct.userId # NULL) # (ct.sessionId # NULL)

\* a login has created the user's cart for its merge, and the resolver has
\* created a cart for the guest session
CartHasOneIdentityWitness ==
  /\ \E c \in Clients : \E ct \in carts :
       /\ LoginMerged(c) /\ ct.id = req[c].cartId
       /\ \A l \in req[c].before : l.cartId # ct.id
       /\ ct.userId = req[c].userId /\ ct.sessionId = NULL
  /\ \E c \in Clients : \E ct \in carts :
       /\ req[c].op = "add" /\ req[c].pc = "done" /\ req[c].status = 200
       /\ ct.id = req[c].cartId /\ ct.userId = NULL /\ ct.sessionId = req[c].sessionId
       /\ \A d \in Clients : IsLogin(d) => ct.id > req[d].cartId

\* C18: an update or a remove whose line id is not a line of the caller's
\* resolved cart answers 404 "Cart item not found"; no step up to the
\* ownership check changes a cart line, and no step of the request changes
\* or deletes a line of another cart.
OwnLinesOnly ==
  [][\A c \in Clients :
       (req[c].op \in {"update", "remove"} /\ req'[c] # req[c]) =>
         /\ (/\ req[c].pc \in {"upd_item", "rem_item"}
             /\ ~\E l \in cartItems : l.id = req[c].itemId /\ l.cartId = req[c].cartId) =>
               /\ req'[c].pc = "done" /\ req'[c].status = 404
               /\ req'[c].error = "Cart item not found"
         /\ req[c].pc \in {"goc_select", "goc_insert", "upd_item", "rem_item", "upd_product"} =>
               cartItems' = cartItems
         /\ \A l \in cartItems : l.cartId # req[c].cartId => l \in cartItems'
         /\ \A l \in cartItems' : l \in cartItems \/ l.cartId = req[c].cartId]_vars

\* an update naming a line of another cart was answered 404, and that line
\* is in the store as it was when the request arrived
OwnLinesOnlyWitness ==
  \E c \in Clients :
    /\ req[c].op = "update" /\ req[c].pc = "done" /\ req[c].status = 404
    /\ req[c].cartId # 0
    /\ \E l \in cartItems :
         /\ l.id = req[c].itemId /\ l.cartId # req[c].cartId
         /\ l \in req[c].before /\ l.quantity # req[c].quantity

\* C19: a clear that has returned answered 200 with the empty cart view and
\* left neither a cart of the caller nor a line of the cart it found; a
\* clear that finds no cart changes nothing.
ClearIsIdempotent ==
  /\ [](\A c \in Clients : (req[c].op = "clear" /\ req[c].pc = "done") =>
          /\ req[c].status = 200
          /\ req[c].view = [id |-> NULL, items |-> {}, itemCount |-> 0, total |-> 0]
          /\ FindCarts(req[c]) = {}
          /\ \A l \in cartItems : l.cartId # req[c].cartId)
  /\ [][\A c \in Clients :
          (/\ req[c].op = "clear" /\ req[c].pc = "clr_cart" /\ req'[c] # req[c]
           /\ FindCarts(req[c]) = {}) =>
            /\ UNCHANGED tables
            /\ req'[c].pc = "done" /\ req'[c].status = 200]_vars

\* the second request of the client, a clear that found no cart, has
\* returned the empty view
ClearIsIdempotentWitness ==
  \E c \in Clients :
    /\ req[c].op = "clear" /\ req[c].pc = "done" /\ req[c].status = 200
    /\ started = 2 /\ req[c].cartId = 0
    /\ req[c].view.items = {} /\ req[c].view.itemCount = 0 /\ req[c].view.total = 0

\* C20: when the order insert of a checkout hits an order number that is
\* taken, the checkout either generates another number and tries again or
\* answers 409 Conflict, and no table changes.
CollisionRetriedOrConflict ==
  [][\A c \in Clients :
       (/\ req[c].pc = "co_order" /\ req'[c] # req[c]
        /\ orders' = orders /\ dbFailures' = dbFailures) =>
          /\ UNCHANGED tables
          /\ \/ req'[c].pc = "co_order"
             \/ req'[c].pc = "done" /\ req'[c].status = 409]_vars

\* -------------------------------------------------- further properties
\* C21: a checkout of a user without a cart answers 400 "Cart not found",
\* a checkout of a cart without lines answers 400 "Cart is empty", and
\* neither changes any table.
CheckoutNeedsCartLines ==
  [][\A c \in Clients :
       (IsCheckout(c) /\ req'[c] # req[c]) =>
         /\ (req[c].pc = "co_cart" /\ \A ct \in carts : ct.userId # req[c].userId) =>
              /\ req'[c].pc = "done" /\ req'[c].status = 400
              /\ req'[c].error = "Cart not found"
              /\ UNCHANGED tables
         /\ (req[c].pc = "co_items" /\ \A l \in cartItems : l.cartId # req[c].cartId) =>
              /\ req'[c].pc = "done" /\ req'[c].status = 400
              /\ req'[c].error = "Cart is empty"
              /\ UNCHANGED tables]_vars

\* one checkout was refused for a missing cart and another for an empty
\* cart; no order exists and the stock is what it was
CheckoutNeedsCartLinesWitness ==
  /\ \E c \in Clients :
       /\ IsCheckout(c) /\ req[c].pc = "done" /\ req[c].error = "Cart not found"
       /\ \A ct \in carts : ct.userId # req[c].userId
  /\ \E c \in Clients :
       /\ IsCheckout(c) /\ req[c].pc = "done" /\ req[c].error = "Cart is empty"
       /\ \E ct \in carts : ct.id = req[c].cartId
  /\ orders = {} /\ orderItems = {} /\ orderStatusHistory = <<>> /\ stock = initStock

\* C22: no step of an admin product update, of a cart request or of a
\* checkout changes an order line that exists (its product, quantity and
\* price at the time of purchase) or the total of an order that exists.
OrderLinesFrozen ==
  [][/\ \A l \in orderItems : l \in orderItems'
     /\ \A o \in orders : \E n \in orders' : n.id = o.id /\ n.totalAmount = o.totalAmount]_vars

\* an admin has repriced the product after it was ordered: the order line
\* and the order total still carry the price of the purchase
OrderLinesFrozenWitness ==
  /\ \E c \in Clients : req[c].op = "admin" /\ req[c].pc = "done" /\ req[c].status = 200
  /\ \E o \in orders : \E l \in orderItems :
       /\ l.orderId = o.id /\ l.priceAtTime # price[l.productId]
       /\ o.totalAmount = l.priceAtTime * l.quantity

\* the sum over a set of cart lines of the current price x quantity, as a
\* double in tenths of a cent
RECURSIVE LiveTotal(_)
LiveTotal(S) ==
  IF S = {} THEN 0
  ELSE LET x == CHOOSE y \in S : TRUE IN
         10 * price[x.productId] * x.quantity + LiveTotal(S \ {x})

UpdateWithinStock ==
  [][\A c \in Clients :
       (req[c].op = "update" /\ req'[c] # req[c]) =>
         /\ req[c].pc = "upd_product" =>
              /\ cartItems' = cartItems
              /\ IF req[c].quantity <= stock[req[c].existing.productId]
                 THEN req'[c].pc = "upd_write"
                 ELSE /\ req'[c].pc = "done" /\ req'[c].status = 400
                      /\ req'[c].error = "Insufficient stock"
         /\ req[c].pc = "upd_write" =>
              /\ req[c].quantity <= stock[req[c].existing.productId]
              /\ cartItems' = (cartItems \ {req[c].existing}) \cup
                               {[req[c].existing EXCEPT !.quantity = req[c].quantity]}]_vars

\* an update to 2 units of a line of 1 unit, with 1 in stock, was answered
\* 400 and the line still holds 1 unit
UpdateWithinStockWitness ==
  \E c \in Clients :
    /\ req[c].op = "update" /\ req[c].pc = "done" /\ req[c].status = 400
    /\ req[c].error = "Insufficient stock" /\ req[c].quantity = 2
    /\ req[c].existing.quantity = 1 /\ stock[req[c].existing.productId] = 1
    /\ req[c].existing \in cartItems

CartOps == {"get", "add", "update", "remove", "clear"}
\* the cart row ct is bound to the identity of the headers of request r:
\* to the user of its token, or without one to its session cookie
BoundTo(ct, r) ==
  IF r.token # NULL
  THEN ct.userId = r.token /\ ct.sessionId = NULL
  ELSE ct.userId = NULL /\ ct.sessionId = r.cookie

\* C25: the cart a cart request resolves is bound to the user of its token,
\* or without a token to its session cookie, and every cart row and cart
\* line the request creates, changes or deletes is that cart or one of its
\* lines.
ResolvedByIdentityType ==
  [][\A c \in Clients :
       (req'[c].op \in CartOps /\ req'[c] # req[c]) =>
         /\ (req'[c].cartId # req[c].cartId /\ req'[c].cartId # 0) =>
              \E ct \in carts' : ct.id = req'[c].cartId /\ BoundTo(ct, req'[c])
         /\ \A l \in (cartItems \ cartItems') \cup (cartItems' \ cartItems) :
              l.cartId = req'[c].cartId
         /\ \A ct \in (carts \ carts') \cup (carts' \ carts) :
              ct.id = req'[c].cartId /\ BoundTo(ct, req'[c])]_vars

\* an add with the token of user 1 and the cookie of session 11 has changed
\* the cart of user 1, and the guest cart of session 11 has the lines it had
ResolvedByIdentityTypeWitness ==
  \E c \in Clients :
    /\ req[c].op = "add" /\ req[c].pc = "done" /\ req[c].status = 200
    /\ req[c].token = 1 /\ req[c].cookie = 11
    /\ \E ct \in carts : ct.id = req[c].cartId /\ ct.userId = 1
    /\ {l \in cartItems : l.cartId = req[c].cartId} #
         {l \in req[c].before : l.cartId = req[c].cartId}
    /\ \E ct \in carts :
         /\ ct.sessionId = 11
         /\ \E l \in cartItems : l.cartId = ct.id
         /\ {l \in cartItems : l.cartId = ct.id} = {l \in req[c].before : l.cartId = ct.id}

\* C26: every cart line has a quantity of at least 1.
CartQuantityPositive == \A l \in cartItems : l.quantity >= 1

\* a login has merged a guest cart, an update has written a line, and the
\* cart holds a line
CartQuantityPositiveWitness ==
  /\ \E c \in Clients : LoginMerged(c)
  /\ \E c \in Clients :
       /\ req[c].op = "update" /\ req[c].pc = "done" /\ req[c].status = 200
       /\ \E l \in cartItems : l.id = req[c].itemId /\ l.quantity = req[c].quantity

\* C27: when two adds of the same product to the same cart have both
\* returned 200, the cart holds the quantity it held when the first of them
\* arrived plus both added quantities (connections are taken in order, so
\* the lower one carries the first request).
ConcurrentAddsSummed ==
  \A c, d \in Clients :
    (/\ c < d
     /\ req[c].op = "add" /\ req[c].pc = "done" /\ req[c].status = 200
     /\ req[d].op = "add" /\ req[d].pc = "done" /\ req[d].status = 200
     /\ req[c].cartId = req[d].cartId /\ req[c].productId = req[d].productId) =>
      /\ Cardinality({l \in cartItems : l.cartId = req[c].cartId
                                        /\ l.productId = req[c].productId}) = 1
      /\ QtyIn(cartItems, req[c].cartId, req[c].productId) =
           QtyIn(req[c].before, req[c].cartId, req[c].productId)
             + req[c].quantity + req[d].quantity

\* C28: two successful checkouts of one user have not ordered the same
\* cart line.
OneOrderPerCartLine ==
  \A c, d \in Clients :
    (c # d /\ Succeeded(c) /\ Succeeded(d) /\ req[c].userId = req[d].userId) =>
      ItemIdsOf(req[c].rows) \cap ItemIdsOf(req[d].rows) = {}

\* C29: every cart line the checkout deletes is a line it has ordered, with
\* the quantity it has ordered.
CheckoutDeletesOnlyOrdered ==
  [][\A c \in Clients :
       (req[c].pc = "co_clear" /\ req'[c].pc = "co_view") =>
         \A l \in cartItems \ cartItems' :
           \E k \in 1..Len(req[c].rows) :
             req[c].rows[k].itemId = l.id /\ req[c].rows[k].quantity = l.quantity]_vars

\* C30: an add, an update or a remove that was answered 400 or 404 has
\* inserted no cart row.
ErrorCreatesNoCart ==
  \A c \in Clients :
    (/\ req[c].op \in {"add", "update", "remove"}
     /\ req[c].pc = "done" /\ req[c].status \in {400, 404}) => ~req[c].created

====
